---- MODULE Spec2Model ----
(***************************************************************************)
(* A model of microcache (src/microcache/__init__.py): the Microcache      *)
(* engine, its options object, its items and the two sentinels.            *)
(*                                                                         *)
(* Python objects that are passed around as keys, values and return values *)
(* are denoted by their repr() string: the string 'foo' is "'foo'", the    *)
(* empty string is "''", the integer 0 is "0", None is "None", True is     *)
(* "True", and the two NotObject sentinels are "CACHE_MISS" and            *)
(* "CACHE_DISABLED" (their repr_str).  An optional ttl is <<>> for None    *)
(* and <<t>> for the number t.  time.time() is the integer clock now.      *)
(***************************************************************************)
EXTENDS Integers, Sequences, FiniteSets, TLC

VARIABLES
    _enabled,   \* MicrocacheOptions._enabled of the engine's options object
    _debug,     \* MicrocacheOptions._debug of the same object
    _dict,      \* Microcache._dict: key -> MicrocacheItem
    now,        \* the value time.time() returns
    scopes,     \* old_setting of each active context manager, innermost first
    op,         \* the last call made on the engine
    ret,        \* what that call returned
    pc          \* thread -> the frame of the call it is inside of

vars == <<_enabled, _debug, _dict, now, scopes, op, ret, pc>>

\* ---------------------------------------------------------------- bounds
MaxTime == 2
MaxDepth == 2

\* ---------------------------------------------------------------- values
None == "None"
True == "True"
False == "False"
CACHE_MISS == "CACHE_MISS"
CACHE_DISABLED == "CACHE_DISABLED"

\* NotObject.__bool__ / __nonzero__, and Python's truth value of None, '', 0, False
Truthy(v) == v \notin {None, "''", "0", False, CACHE_MISS, CACHE_DISABLED}

PyBool(b) == IF b THEN True ELSE False

\* keys that upsert is called with; has and get are also called with a key
\* that is never stored, and clear also with no key
Keys == {"''", "'foo'"}
QueryKeys == Keys \cup {"0"}
ArgKeys == QueryKeys \cup {None}
Values == {"'bar'", "'baz'"}
Defaults == {CACHE_MISS, "'dflt'"}
\* no ttl, and the ttl=1 of the tests
NoTtl == <<>>
Ttls == {NoTtl, <<1>>}

\* ---------------------------------------------------------------- items
MicrocacheItem(value, ttl) == [value |-> value, ttl |-> ttl, timestamp |-> now]

\* is_expired that never finds an item expired
is_expired_never(item) == FALSE

\* is_expired with >= where the code has >
is_expired_ge(item) ==
    IF item.ttl = NoTtl THEN FALSE
    ELSE now - item.timestamp >= item.ttl[1]

is_expired(item) ==
    IF item.ttl = NoTtl THEN FALSE
    ELSE now - item.timestamp > item.ttl[1]

\* ---------------------------------------------------------------- results
has(key) ==
    IF ~_enabled THEN CACHE_DISABLED
    ELSE PyBool(key \in DOMAIN _dict /\ ~is_expired(_dict[key]))

\* get without its own check of the enabled flag
get_ungated(key, default) ==
    IF Truthy(has(key)) THEN _dict[key].value ELSE default

\* get that answers CACHE_MISS on a miss whatever the default
get_miss_only(key, default) ==
    IF ~_enabled THEN CACHE_DISABLED
    ELSE IF Truthy(has(key)) THEN _dict[key].value ELSE CACHE_MISS

get(key, default) ==
    IF ~_enabled THEN CACHE_DISABLED
    ELSE IF Truthy(has(key)) THEN _dict[key].value ELSE default

\* Microcache.upsert: what it returns, and the store it leaves
upsert_ret == IF ~_enabled THEN CACHE_DISABLED ELSE True

\* upsert that stores before looking at the enabled flag
upsert_store_ungated(key, value, ttl) ==
    [k \in DOMAIN _dict \cup {key} |->
        IF k = key THEN MicrocacheItem(value, ttl) ELSE _dict[k]]

\* upsert that keeps the timestamp of the entry it overwrites
upsert_store_keep_timestamp(key, value, ttl) ==
    IF ~_enabled THEN _dict
    ELSE [k \in DOMAIN _dict \cup {key} |->
            IF k # key THEN _dict[k]
            ELSE IF key \in DOMAIN _dict
                 THEN [MicrocacheItem(value, ttl) EXCEPT
                           !.timestamp = _dict[key].timestamp]
                 ELSE MicrocacheItem(value, ttl)]

upsert_store(key, value, ttl) ==
    IF ~_enabled THEN _dict
    ELSE [k \in DOMAIN _dict \cup {key} |->
            IF k = key THEN MicrocacheItem(value, ttl) ELSE _dict[k]]

\* clear with "else" where the code has "elif not key"
clear_dict_else(key) ==
    IF key # None /\ key \in DOMAIN _dict
    THEN [k \in DOMAIN _dict \ {key} |-> _dict[k]]
    ELSE << >>

\* clear with "elif key is None" where the code has "elif not key"
clear_dict_none_only(key) ==
    IF key # None /\ key \in DOMAIN _dict
    THEN [k \in DOMAIN _dict \ {key} |-> _dict[k]]
    ELSE IF key = None THEN << >>
    ELSE _dict

\* the store after the if / elif of Microcache.clear
clear_dict(key) ==
    IF key # None /\ key \in DOMAIN _dict
    THEN [k \in DOMAIN _dict \ {key} |-> _dict[k]]
    ELSE IF ~Truthy(key) THEN << >>
    ELSE _dict

\* Microcache.clear: what it returns, and the store it leaves
clear_ret == IF ~_enabled THEN CACHE_DISABLED ELSE True

clear_store(key) == IF ~_enabled THEN _dict ELSE clear_dict(key)

\* the store after the "if clear_cache: self.clear()" of Microcache.disable
disable_store(clear_cache) == IF clear_cache THEN clear_store(None) ELSE _dict

Call(name, key, arg) == [name |-> name, key |-> key, arg |-> arg]

\* what the store holds under key when a call is made
entry_state(key) ==
    IF key \notin DOMAIN _dict THEN "absent"
    ELSE IF is_expired(_dict[key]) THEN "expired" ELSE "live"

\* the record of an upsert call: its arguments and what it found under key
UpsertCall(key, value, ttl) ==
    [name |-> "upsert", key |-> key, arg |-> value, ttl |-> ttl,
     found |-> entry_state(key)]

\* the threads that call the engine, and the frame of a call in progress:
\* the statement the thread is at, the call's arguments, and the keys the
\* loop of clear still has to delete
Threads == {"t1", "t2"}

Frame(at, key, arg, ttl, todo) ==
    [at |-> at, key |-> key, arg |-> arg, ttl |-> ttl, todo |-> todo]

Idle == Frame("idle", None, None, NoTtl, {})

\* ---------------------------------------------------------------- state
Init ==
    /\ _enabled = TRUE
    /\ _debug = FALSE
    /\ _dict = << >>
    /\ now = 0
    /\ scopes = << >>
    /\ op = Call("init", None, None)
    /\ ret = None
    /\ pc = [t \in Threads |-> Idle]

Has(key) ==
    /\ op' = Call("has", key, None)
    /\ ret' = has(key)
    /\ UNCHANGED <<_enabled, _dict, now, scopes, _debug, pc>>

Upsert(key, value, ttl) ==
    /\ op' = UpsertCall(key, value, ttl)
    /\ ret' = upsert_ret
    /\ _dict' = upsert_store(key, value, ttl)
    /\ UNCHANGED <<_enabled, now, scopes, _debug, pc>>

Get(key, default) ==
    /\ op' = Call("get", key, default)
    /\ ret' = get(key, default)
    /\ UNCHANGED <<_enabled, _dict, now, scopes, _debug, pc>>

\* the module-level get(key) on the shared engine CACHE_OBJ: its own default
\* is CACHE_DISABLED
module_get(key) == get(key, CACHE_DISABLED)

ModuleGet(key) ==
    /\ op' = Call("module_get", key, None)
    /\ ret' = module_get(key)
    /\ UNCHANGED <<_enabled, _dict, now, scopes, _debug, pc>>

Clear(key) ==
    /\ op' = Call("clear", key, None)
    /\ ret' = clear_ret
    /\ _dict' = clear_store(key)
    /\ UNCHANGED <<_enabled, now, scopes, _debug, pc>>

Disable(clear_cache) ==
    /\ op' = Call("disable", None, PyBool(clear_cache))
    /\ _dict' = disable_store(clear_cache)
    /\ _enabled' = FALSE
    /\ ret' = None
    /\ UNCHANGED <<now, scopes, _debug, pc>>

Enable ==
    /\ op' = Call("enable", None, None)
    /\ _enabled' = TRUE
    /\ ret' = None
    /\ UNCHANGED <<_dict, now, scopes, _debug, pc>>

\* temporarily_disabled calling self.disable() with its default clear_cache
TemporarilyDisabledEnter_clearing ==
    /\ Len(scopes) < MaxDepth
    /\ scopes' = <<_enabled>> \o scopes
    /\ op' = Call("temporarily_disabled", None, None)
    /\ _dict' = disable_store(TRUE)
    /\ _enabled' = FALSE
    /\ ret' = None
    /\ UNCHANGED <<now, _debug, pc>>

\* entering "with cache.temporarily_disabled():" up to the yield
TemporarilyDisabledEnter ==
    /\ Len(scopes) < MaxDepth
    /\ scopes' = <<_enabled>> \o scopes
    /\ op' = Call("temporarily_disabled", None, None)
    /\ _dict' = disable_store(FALSE)
    /\ _enabled' = FALSE
    /\ ret' = None
    /\ UNCHANGED <<now, _debug, pc>>

\* entering "with cache.temporarily_enabled():" up to the yield
TemporarilyEnabledEnter ==
    /\ Len(scopes) < MaxDepth
    /\ scopes' = <<_enabled>> \o scopes
    /\ op' = Call("temporarily_enabled", None, None)
    /\ _enabled' = TRUE
    /\ ret' = None
    /\ UNCHANGED <<_dict, now, _debug, pc>>

\* a finally clause that calls self.enable() instead of restoring old_setting
ScopeExit_enable ==
    /\ scopes # << >>
    /\ _enabled' = TRUE
    /\ scopes' = Tail(scopes)
    /\ op' = Call("exit", None, None)
    /\ ret' = None
    /\ UNCHANGED <<_dict, now, _debug, pc>>

\* leaving the innermost with block: the finally clause of its context manager
ScopeExit ==
    /\ scopes # << >>
    /\ _enabled' = Head(scopes)
    /\ scopes' = Tail(scopes)
    /\ op' = Call("exit", None, None)
    /\ ret' = None
    /\ UNCHANGED <<_dict, now, _debug, pc>>

\* a context manager without try / finally: an error in the body skips the restore
ScopeExitError_nofinally ==
    /\ scopes # << >>
    /\ _enabled' = _enabled
    /\ scopes' = Tail(scopes)
    /\ op' = Call("exit", None, "error")
    /\ ret' = None
    /\ UNCHANGED <<_dict, now, _debug, pc>>

\* the body of the innermost with block raises: the exception is thrown into
\* the generator at its yield, the finally clause runs, the exception goes on
ScopeExitError ==
    /\ scopes # << >>
    /\ _enabled' = Head(scopes)
    /\ scopes' = Tail(scopes)
    /\ op' = Call("exit", None, "error")
    /\ ret' = None
    /\ UNCHANGED <<_dict, now, _debug, pc>>

\* time passes between two calls
Tick ==
    /\ now < MaxTime
    /\ now' = now + 1
    /\ op' = Call("tick", None, None)
    /\ ret' = None
    /\ UNCHANGED <<_enabled, _dict, scopes, _debug, pc>>

\* ---------------------------------------------------------------- this
\* what the decorated function did in a call: it was not called, it raised,
\* or it returned one of Values
NOT_CALLED == "<not called>"
RAISED == "<raised>"
Outcomes == Values \cup {RAISED}

\* str(args) of the calls foo() and foo(1) of a decorated function foo
ArgTuples == {"()", "(1,)"}

\* the key argument of the decorator: left out, or 'foo'
ExplicitKeys == {None, "'foo'"}

\* func.__name__ + str(args) + str(kwargs), a string, denoted by its repr
derived_key(args) == "'foo" \o args \o "{}'"

\* a key made of func.__name__ alone
this_key_name_only(key, args) == IF Truthy(key) THEN key ELSE "'foo'"

\* a key that is always derived, the decorator's key argument ignored
this_key_derived_only(key, args) == derived_key(args)

\* key = key or (func.__name__ + str(args) + str(kwargs))
this_key(key, args) == IF Truthy(key) THEN key ELSE derived_key(args)

ThisKeys == {this_key(key, args) : key \in ExplicitKeys, args \in ArgTuples}

\* "if cache_obj.has(key) is not False:", which takes CACHE_DISABLED for a hit
this_hit_not_false(k) == has(k) # False

\* if cache_obj.has(key):
this_hit(k) == Truthy(has(k))

\* a wrapper that catches the error of func and caches None
this_store_caught(k, outcome, ttl) ==
    upsert_store(k, IF outcome = RAISED THEN None ELSE outcome, ttl)

\* the store after value = func(*args, **kwargs); cache_obj.upsert(key, value, ttl)
this_store(k, outcome, ttl) ==
    IF outcome = RAISED THEN _dict ELSE upsert_store(k, outcome, ttl)

ThisCall(args, key, ttl, k, outcome) ==
    [name |-> "this", key |-> k, arg |-> outcome,
     args |-> args, explicit |-> key, ttl |-> ttl]

\* one call of a function decorated with this(cache_obj=cache, key=key, ttl=ttl).
\* On a hit has and get each read the clock, get after has; on a miss the
\* function runs and its value is stored.
This(args, key, ttl) ==
    LET k == this_key(key, args) IN
    \/ /\ this_hit(k)
       /\ \E dt \in {0, 1} :
            /\ now + dt <= MaxTime
            /\ now' = now + dt
       /\ UNCHANGED <<_enabled, _debug, _dict, scopes, pc>>
       /\ ret' = get(k, CACHE_MISS)'
       /\ op' = ThisCall(args, key, ttl, k, NOT_CALLED)
    \/ /\ ~this_hit(k)
       /\ \E outcome \in Outcomes :
            /\ _dict' = this_store(k, outcome, ttl)
            /\ ret' = outcome
            /\ op' = ThisCall(args, key, ttl, k, outcome)
       /\ UNCHANGED <<_enabled, _debug, now, scopes, pc>>

\* ---------------------------------------------------------------- listing
\* Keys of the listing are strings given as the sequence of their character
\* codes, so that they can be compared and cut: 'foo', 'unfoo', 'foo/qux'.
K_foo == <<102, 111, 111>>
K_unfoo == <<117, 110, 102, 111, 111>>
K_foo_qux == <<102, 111, 111, 47, 113, 117, 120>>
ItemKeys == {K_foo, K_unfoo, K_foo_qux}

\* path_root: <<>> when it is not given, <<root>> when it is
NoRoot == <<>>
Roots == {NoRoot, <<K_foo>>, <<K_unfoo>>}

\* a < b for strings, as Python compares them: by the first character that
\* differs, a proper prefix being smaller
str_lt(a, b) ==
    \E i \in 1..(Len(b)) :
        /\ \A j \in 1..(i - 1) : j <= Len(a) /\ a[j] = b[j]
        /\ i - 1 <= Len(a)
        /\ (i > Len(a) \/ a[i] < b[i])

\* key is path_root itself or begins with path_root followed by '/'
under_root(key, path_root) ==
    \/ path_root = NoRoot
    \/ key = path_root[1]
    \/ /\ Len(key) > Len(path_root[1])
       /\ SubSeq(key, 1, Len(path_root[1]) + 1) = path_root[1] \o <<47>>

RECURSIVE sorted_keys(_)
sorted_keys(S) ==
    IF S = {} THEN << >>
    ELSE LET m == CHOOSE k \in S : \A j \in S : j = k \/ str_lt(k, j)
         IN <<m>> \o sorted_keys(S \ {m})

\* Microcache.items: the live entries under path_root as (key, value) pairs,
\* sorted by key; the enabled flag is not looked at
items(path_root) ==
    LET ks == sorted_keys({k \in DOMAIN _dict :
                  ~is_expired(_dict[k]) /\ under_root(k, path_root)})
    IN [i \in 1..Len(ks) |-> <<ks[i], _dict[ks[i]].value>>]

Items(path_root) ==
    /\ op' = Call("items", path_root, None)
    /\ ret' = items(path_root)
    /\ UNCHANGED <<_enabled, _debug, _dict, now, scopes, pc>>

Next ==
    \/ \E key \in QueryKeys : Has(key)
    \/ \E key \in Keys, value \in Values, ttl \in Ttls : Upsert(key, value, ttl)
    \/ \E key \in QueryKeys, default \in Defaults : Get(key, default)
    \/ \E key \in ArgKeys : Clear(key)
    \/ \E clear_cache \in BOOLEAN : Disable(clear_cache)
    \/ Enable
    \/ TemporarilyDisabledEnter
    \/ TemporarilyEnabledEnter
    \/ ScopeExit
    \/ ScopeExitError
    \/ Tick

Spec == Init /\ [][Next]_vars

\* ---- options: the enabled and debug properties of MicrocacheOptions
TYPE_ERROR == "<TypeError>"
Assigned == {True, False, None, "'foo'", "0", "1"}

isinstance_bool(value) == value \in {True, False}

\* what the property getters return
enabled == IF _enabled THEN True ELSE False
debug == IF _debug THEN True ELSE False

setter_ret(value) == IF isinstance_bool(value) THEN None ELSE TYPE_ERROR

enabled_set_coerced(value) == Truthy(value)

enabled_set(value) == IF isinstance_bool(value) THEN value = True ELSE _enabled

debug_set(value) == IF isinstance_bool(value) THEN value = True ELSE _debug

SetEnabled(value) ==
    /\ op' = Call("options.enabled", None, value)
    /\ ret' = setter_ret(value)
    /\ _enabled' = enabled_set(value)
    /\ UNCHANGED <<_debug, _dict, now, scopes, pc>>

SetDebug(value) ==
    /\ op' = Call("options.debug", None, value)
    /\ ret' = setter_ret(value)
    /\ _debug' = debug_set(value)
    /\ UNCHANGED <<_enabled, _dict, now, scopes, pc>>

\* an engine whose options are assigned directly
NextOptions ==
    \/ \E value \in Assigned : SetEnabled(value)
    \/ \E value \in Assigned : SetDebug(value)
    \/ \E key \in Keys, value \in Values, ttl \in Ttls : Upsert(key, value, ttl)
    \/ \E key \in QueryKeys, default \in Defaults : Get(key, default)
    \/ Tick

SpecOptions == Init /\ [][NextOptions]_vars

\* the shared engine used through the module-level functions
NextModule ==
    \/ \E key \in QueryKeys : ModuleGet(key)
    \/ \E key \in QueryKeys, default \in Defaults : Get(key, default)
    \/ \E key \in Keys, value \in Values, ttl \in Ttls : Upsert(key, value, ttl)
    \/ \E key \in ArgKeys : Clear(key)
    \/ \E clear_cache \in BOOLEAN : Disable(clear_cache)
    \/ Enable
    \/ Tick

SpecModule == Init /\ [][NextModule]_vars

\* the engine used through a decorated function
NextThis ==
    \/ \E args \in ArgTuples, key \in ExplicitKeys, ttl \in Ttls : This(args, key, ttl)
    \/ \E key \in ThisKeys \cup {None} : Clear(key)
    \/ \E clear_cache \in BOOLEAN : Disable(clear_cache)
    \/ Enable
    \/ Tick

SpecThis == Init /\ [][NextThis]_vars

\* the engine with its listing
NextItems ==
    \/ \E key \in ItemKeys, value \in Values, ttl \in Ttls : Upsert(key, value, ttl)
    \/ \E path_root \in Roots : Items(path_root)
    \/ Disable(FALSE)
    \/ Enable
    \/ Tick

SpecItems == Init /\ [][NextItems]_vars

\* ---- one engine called from several threads.  The code takes no lock, so
\* a thread can be preempted between any two statements of a call; a call
\* is one step per statement that reads or writes the flag or the store.
KEY_ERROR == "<KeyError>"

Goto(t, frame) == pc' = [pc EXCEPT ![t] = frame]

\* disable(clear_cache), line 203: "if clear_cache:" leads into self.clear()
\* or straight to the assignment of the flag
ThreadDisable(t, clear_cache) ==
    /\ pc[t].at = "idle"
    /\ Goto(t, Frame(IF clear_cache THEN "clear" ELSE "set_enabled",
                     None, PyBool(clear_cache), NoTtl, {}))
    /\ UNCHANGED <<_enabled, _debug, _dict, now, scopes, op, ret>>

\* clear() called by disable, lines 183-190: it returns at once when the
\* engine is disabled, else (key is None) it lists the keys of the store
ThreadClear(t) ==
    /\ pc[t].at = "clear"
    /\ IF ~_enabled
       THEN Goto(t, [pc[t] EXCEPT !.at = "set_enabled"])
       ELSE Goto(t, [pc[t] EXCEPT !.at = "clear_loop", !.todo = DOMAIN _dict])
    /\ UNCHANGED <<_enabled, _debug, _dict, now, scopes, op, ret>>

\* one "del self._dict[cached_key]" of the loop, line 191; a key that another
\* thread has deleted since the keys were listed raises KeyError out of
\* disable.  The model does not keep the order of the keys of a dict: the
\* loop takes the listed keys in any order.
ThreadClearDel(t) ==
    /\ pc[t].at = "clear_loop"
    /\ \E cached_key \in pc[t].todo :
           IF cached_key \in DOMAIN _dict
           THEN /\ _dict' = [k \in DOMAIN _dict \ {cached_key} |-> _dict[k]]
                /\ Goto(t, [pc[t] EXCEPT !.todo = @ \ {cached_key}])
                /\ UNCHANGED <<op, ret>>
           ELSE /\ op' = Call("disable", None, pc[t].arg)
                /\ ret' = KEY_ERROR
                /\ Goto(t, Idle)
                /\ UNCHANGED _dict
    /\ UNCHANGED <<_enabled, _debug, now, scopes>>

\* the loop is over and clear returns True to disable
ThreadClearDone(t) ==
    /\ pc[t].at = "clear_loop"
    /\ pc[t].todo = {}
    /\ Goto(t, [pc[t] EXCEPT !.at = "set_enabled"])
    /\ UNCHANGED <<_enabled, _debug, _dict, now, scopes, op, ret>>

\* "self.options.enabled = False", line 205, and disable returns
ThreadSetEnabled(t) ==
    /\ pc[t].at = "set_enabled"
    /\ _enabled' = FALSE
    /\ op' = Call("disable", None, pc[t].arg)
    /\ ret' = None
    /\ Goto(t, Idle)
    /\ UNCHANGED <<_debug, _dict, now, scopes>>

\* upsert(key, value, ttl), lines 151-152: the test of the flag
ThreadUpsert(t, key, value, ttl) ==
    /\ pc[t].at = "idle"
    /\ IF ~_enabled
       THEN /\ op' = UpsertCall(key, value, ttl)
            /\ ret' = CACHE_DISABLED
            /\ UNCHANGED pc
       ELSE /\ Goto(t, Frame("store", key, value, ttl, {}))
            /\ UNCHANGED <<op, ret>>
    /\ UNCHANGED <<_enabled, _debug, _dict, now, scopes>>

\* "self._dict[key] = MicrocacheItem(value, ttl)", line 155, and upsert
\* returns True
ThreadUpsertStore(t) ==
    /\ pc[t].at = "store"
    /\ _dict' = [k \in DOMAIN _dict \cup {pc[t].key} |->
                    IF k = pc[t].key THEN MicrocacheItem(pc[t].arg, pc[t].ttl)
                    ELSE _dict[k]]
    /\ op' = UpsertCall(pc[t].key, pc[t].arg, pc[t].ttl)
    /\ ret' = True
    /\ Goto(t, Idle)
    /\ UNCHANGED <<_enabled, _debug, now, scopes>>

\* enable(), line 212: one assignment, made by a thread that is in no call
ThreadEnable(t) ==
    /\ pc[t].at = "idle"
    /\ Enable

NextThreads ==
    \/ \E t \in Threads, clear_cache \in BOOLEAN : ThreadDisable(t, clear_cache)
    \/ \E t \in Threads : ThreadClear(t)
    \/ \E t \in Threads : ThreadClearDel(t)
    \/ \E t \in Threads : ThreadClearDone(t)
    \/ \E t \in Threads : ThreadSetEnabled(t)
    \/ \E t \in Threads, key \in Keys, value \in Values, ttl \in Ttls :
           ThreadUpsert(t, key, value, ttl)
    \/ \E t \in Threads : ThreadUpsertStore(t)
    \/ \E t \in Threads : ThreadEnable(t)

SpecThreads == Init /\ [][NextThreads]_vars

\* ---------------------------------------------------------------- claims
EngineCalls == {"has", "upsert", "get", "clear"}

\* the entry store without the entry of key k
Without(k) == [j \in DOMAIN _dict \ {k} |-> _dict[j]]

\* C1: a has, upsert, get or clear made while enabled is false returns
\* CACHE_DISABLED, whatever the key, the value, the ttl and the default.
C1_DisabledPrecedence ==
    [][(~_enabled /\ op'.name \in EngineCalls) => ret' = CACHE_DISABLED]_vars

\* a get with an explicit default on a disabled engine has returned CACHE_DISABLED
C1_Witness ==
    /\ ~_enabled
    /\ op.name = "get" /\ op.arg = "'dflt'"
    /\ ret = CACHE_DISABLED

\* C2: a has, upsert, get or clear made while enabled is false leaves the
\* entry store as it was: the same keys, each with the same value, ttl and timestamp.
C2_DisabledFrame ==
    [][(~_enabled /\ op'.name \in EngineCalls) => _dict' = _dict]_vars

\* a disabled upsert of another value to a stored key has left the stored value
C2_Witness ==
    /\ ~_enabled
    /\ op.name = "upsert" /\ ret = CACHE_DISABLED
    /\ op.key \in DOMAIN _dict
    /\ _dict[op.key].value # op.arg

\* the entry store holds k and k's ttl has not elapsed
Live(k) ==
    /\ k \in DOMAIN _dict
    /\ ~(_dict[k].ttl # NoTtl /\ now - _dict[k].timestamp > _dict[k].ttl[1])

\* the step is one of those the claim excepts for a stored key k: a clear of
\* k, a clear of everything (no key or a falsy key, disable with
\* clear_cache), an upsert of k, or the clock passing k's ttl
Interferes(k) ==
    \/ op'.name = "clear" /\ (op'.key = k \/ ~Truthy(op'.key))
    \/ op'.name = "disable" /\ op'.arg = True
    \/ op'.name = "upsert" /\ op'.key = k
    \/ _dict[k].ttl # NoTtl /\ now' - _dict[k].timestamp > _dict[k].ttl[1]

\* C3: an upsert(k, v) that returns True leaves k live with the value v; a
\* live entry stays live with the same value over every step that is not a
\* clear of k, a clear of everything, another upsert of k or the elapsing
\* of its ttl; and on an enabled engine has(k) of a live entry returns True
\* and get(k) returns its value.
C3_UpsertThenLive ==
    [][/\ (op'.name = "upsert" /\ ret' = True)
            => (Live(op.key) /\ _dict[op.key].value = op.arg)'
       /\ \A k \in DOMAIN _dict :
            (Live(k) /\ ~Interferes(k))
                => (Live(k)' /\ _dict'[k].value = _dict[k].value)
       /\ (_enabled /\ op'.name = "has" /\ Live(op'.key)) => ret' = True
       /\ (_enabled /\ op'.name = "get" /\ Live(op'.key))
            => ret' = _dict[op'.key].value
      ]_vars

\* a value stored with a ttl is read back by get at a later time
C3_Witness ==
    /\ op.name = "get" /\ op.key = "'foo'" /\ ret = "'baz'"
    /\ _dict["'foo'"].ttl # NoTtl
    /\ now > _dict["'foo'"].timestamp
    /\ "''" \in DOMAIN _dict

\* C4: the store starts empty and only an upsert of k puts k in the store;
\* on an enabled engine has of a key that is not in the store returns False
\* and get returns the default the caller gave, CACHE_MISS when none was given.
C4_NeverUpserted ==
    /\ DOMAIN _dict = {}
    /\ [][/\ \A k \in ArgKeys :
                (k \in DOMAIN _dict' /\ k \notin DOMAIN _dict)
                    => (op'.name = "upsert" /\ op'.key = k)
          /\ (_enabled /\ op'.name = "has" /\ op'.key \notin DOMAIN _dict)
                => ret' = False
          /\ (_enabled /\ op'.name = "get" /\ op'.key \notin DOMAIN _dict)
                => ret' = op'.arg
         ]_vars

\* get of the key 0, which no upsert is ever made with, has returned the
\* caller's default while another key is stored
C4_Witness ==
    /\ _enabled
    /\ op.name = "get" /\ op.key = "0" /\ op.arg = "'dflt'" /\ ret = "'dflt'"
    /\ _dict # << >>

\* the ttl of the stored item is present and less than the time since its creation
Elapsed(item) == item.ttl # NoTtl /\ now - item.timestamp > item.ttl[1]

\* C5: on an enabled engine has(k) of a stored key returns False exactly
\* when the entry's ttl is present and now - timestamp > ttl, and get(k)
\* then returns the default, otherwise the value; has(k) is True right after
\* the upsert, and an entry without ttl is never treated as absent.
C5_ExpiryStrict ==
    [][/\ (_enabled /\ op'.name = "has" /\ op'.key \in DOMAIN _dict)
            => ret' = PyBool(~Elapsed(_dict[op'.key]))
       /\ (_enabled /\ op'.name = "get" /\ op'.key \in DOMAIN _dict)
            => ret' = IF Elapsed(_dict[op'.key]) THEN op'.arg
                      ELSE _dict[op'.key].value
       /\ \A k \in Keys :
            (op'.name = "upsert" /\ op'.key = k /\ ret' = True) => has(k)' = True
       /\ \A k \in DOMAIN _dict : _dict[k].ttl = NoTtl => ~is_expired(_dict[k])
      ]_vars

\* has returns True at the moment the elapsed time equals the ttl
C5_Witness ==
    /\ op.name = "has" /\ ret = True
    /\ op.key \in DOMAIN _dict
    /\ _dict[op.key].ttl # NoTtl
    /\ now - _dict[op.key].timestamp = _dict[op.key].ttl[1]

\* C6: on an enabled engine clear(k) with a key k given returns True and
\* removes the entry of k and nothing else, whatever k is and whether or
\* not k is in the store.
C6_ClearKeyOnly ==
    [][(_enabled /\ op'.name = "clear" /\ op'.key # None)
          => (ret' = True /\ _dict' = Without(op'.key))]_vars

\* C7 as stated: on an enabled engine clear with no key or with a falsy key
\* returns True and leaves the store empty, whichever keys are present.
C7_FalsyClearsAll ==
    [][(_enabled /\ op'.name = "clear" /\ ~Truthy(op'.key))
          => (ret' = True /\ _dict' = << >>)]_vars

\* C7: on an enabled engine clear with no key (None), or with a falsy key
\* that is not in the store, returns True and leaves the store empty; clear
\* with a falsy key that is in the store returns True and removes that entry only.
C7_FalsyClear ==
    [][(_enabled /\ op'.name = "clear" /\ ~Truthy(op'.key))
          => /\ ret' = True
             /\ _dict' = IF op'.key # None /\ op'.key \in DOMAIN _dict
                         THEN Without(op'.key)
                         ELSE << >>]_vars

\* clear('') has removed the entry of '' and left the entry of 'foo'
C7_Witness ==
    /\ _enabled
    /\ op.name = "clear" /\ op.key = "''" /\ ret = True
    /\ DOMAIN _dict = {"'foo'"}

\* C8: after disable() with clear_cache true, from any state, enabled is
\* false and the entry store is empty.
C8_DisableClears ==
    [][(op'.name = "disable" /\ op'.arg = True)
          => (~_enabled' /\ _dict' = << >>)]_vars

FlagCalls == {"enable", "temporarily_disabled", "temporarily_enabled", "exit"}

\* C9: disable(clear_cache=False), enable(), and entering and leaving a
\* temporarily_disabled or temporarily_enabled scope leave the entry store
\* as it was: no entry is removed, changed or created.
C9_FlagFrame ==
    [][(op'.name \in FlagCalls \/ (op'.name = "disable" /\ op'.arg = False))
          => _dict' = _dict]_vars

\* a temporarily_disabled scope entered on an enabled engine has been left
\* and the store still holds an entry
C9_Witness ==
    /\ op.name = "exit" /\ _enabled
    /\ scopes = << >>
    /\ "'foo'" \in DOMAIN _dict

\* C10: entering temporarily_disabled sets enabled to false and entering
\* temporarily_enabled sets it to true, each pushing the value enabled had
\* at entry; leaving a scope pops that value into enabled; no other call
\* changes the stack, and has, upsert, get and clear leave enabled alone.
C10_ScopesNest ==
    [][/\ op'.name = "temporarily_disabled"
            => (~_enabled' /\ scopes' = <<_enabled>> \o scopes)
       /\ op'.name = "temporarily_enabled"
            => (_enabled' /\ scopes' = <<_enabled>> \o scopes)
       /\ op'.name = "exit"
            => (scopes # << >> /\ _enabled' = Head(scopes) /\ scopes' = Tail(scopes))
       /\ op'.name \notin {"temporarily_disabled", "temporarily_enabled", "exit"}
            => scopes' = scopes
       /\ op'.name \in EngineCalls \cup {"tick"} => _enabled' = _enabled
      ]_vars

\* the inner temporarily_enabled scope of a temporarily_disabled scope entered
\* on an enabled engine has been left: enabled is false again
C10_Witness ==
    /\ op.name = "exit"
    /\ scopes = <<TRUE>>
    /\ ~_enabled

\* C11: when the body of a temporarily_disabled or temporarily_enabled scope
\* ends with an error, enabled becomes the value captured when the scope was
\* entered, as on normal completion; enable() and disable() called in the
\* body change enabled but not the captured value, so the restored value is
\* the captured one whatever enabled was just before the exit.
C11_RestoreOnError ==
    [][/\ (op'.name = "exit" /\ op'.arg = "error")
            => (scopes # << >> /\ _enabled' = Head(scopes) /\ scopes' = Tail(scopes))
       /\ (op'.name \in {"enable", "disable"}) => scopes' = scopes
       /\ (op'.name = "enable" /\ scopes # << >>) => _enabled'
       /\ (op'.name = "disable" /\ scopes # << >>) => ~_enabled'
      ]_vars

\* the body of an outermost scope that was entered on an enabled engine has
\* ended with an error and enabled is true again
C11_Witness ==
    /\ op.name = "exit" /\ op.arg = "error"
    /\ scopes = << >>
    /\ _enabled

\* a call of a decorated function made on an enabled engine
ThisEnabled == _enabled /\ op'.name = "this"

\* C12: on an enabled engine a call of a function decorated without a key
\* does not run the body when the entry of its key is live, and runs it when
\* the entry is absent or its ttl has elapsed, storing the value it returned
\* under that key; it changes no other entry; the call that follows a call
\* with other arguments uses another key and leaves the first call's entry
\* as it was; and a live entry stays live, unchanged, over every step that
\* is not a clear of it, a clear of everything or the elapsing of its ttl.
C12_MemoizedOnce ==
    [][/\ (ThisEnabled /\ op'.explicit = None) =>
            /\ Live(op'.key) => op'.arg = NOT_CALLED
            /\ ~Live(op'.key) => op'.arg # NOT_CALLED
            /\ op'.arg \in Values =>
                  _dict'[op'.key] =
                      [value |-> op'.arg, ttl |-> op'.ttl, timestamp |-> now]
            /\ \A j \in DOMAIN _dict \ {op'.key} :
                  j \in DOMAIN _dict' /\ _dict'[j] = _dict[j]
            /\ (op.name = "this" /\ op.explicit = None /\ op.args # op'.args) =>
                  /\ op'.key # op.key
                  /\ op.key \in DOMAIN _dict =>
                        (op.key \in DOMAIN _dict' /\ _dict'[op.key] = _dict[op.key])
       /\ \A k \in DOMAIN _dict :
            (Live(k) /\ ~Interferes(k)) => (Live(k)' /\ _dict'[k] = _dict[k])
      ]_vars

\* foo() and foo(1) are both cached and a further call has not run the body
C12_Witness ==
    /\ _enabled
    /\ op.name = "this" /\ op.explicit = None /\ op.arg = NOT_CALLED
    /\ ret \in Values
    /\ {derived_key(a) : a \in ArgTuples} \subseteq DOMAIN _dict
    /\ now > _dict[op.key].timestamp

C14_HitFrame ==
    [][(op'.name = "this" /\ has(op'.key) = True)
          => /\ op'.arg = NOT_CALLED
             /\ _dict' = _dict
             /\ ret' = _dict[op'.key].value]_vars

\* C15: on a disabled engine a call of a decorated function runs the body,
\* returns what the body returned (or fails as the body failed), never
\* CACHE_DISABLED, and leaves the store as it was.
C15_DisabledThis ==
    [][(~_enabled /\ op'.name = "this")
          => /\ op'.arg # NOT_CALLED
             /\ ret' = op'.arg
             /\ ret' # CACHE_DISABLED
             /\ _dict' = _dict]_vars

\* on a disabled engine the body has run and returned another value than the
\* one stored under the call's key, which is still stored
C15_Witness ==
    /\ ~_enabled
    /\ op.name = "this" /\ op.arg \in Values /\ ret = op.arg
    /\ op.key \in DOMAIN _dict
    /\ _dict[op.key].value # op.arg

\* C16: when the body fails the call fails, the store is left as it was, and
\* a call with the same key that follows runs the body again; a call whose
\* key has no live entry always runs the body.
C16_FailurePropagates ==
    [][/\ (op'.name = "this" /\ op'.arg = RAISED)
            => (ret' = RAISED /\ _dict' = _dict)
       /\ (op.name = "this" /\ op.arg = RAISED /\ op'.name = "this" /\ op'.key = op.key)
            => op'.arg # NOT_CALLED
       /\ (op'.name = "this" /\ has(op'.key) # True) => op'.arg # NOT_CALLED
      ]_vars

\* on an enabled engine the body has failed and nothing is stored under the key
C16_Witness ==
    /\ _enabled
    /\ op.name = "this" /\ op.arg = RAISED /\ ret = RAISED
    /\ op.key \notin DOMAIN _dict
    /\ _dict # << >>

\* the keys of the store that items(path_root) is to list
Listed(path_root) ==
    {k \in DOMAIN _dict :
        /\ ~Elapsed(_dict[k])
        /\ \/ path_root = NoRoot
           \/ k = path_root[1]
           \/ \E rest \in 1..Len(k) :
                  /\ Len(k) = Len(path_root[1]) + rest
                  /\ \A i \in 1..Len(path_root[1]) : k[i] = path_root[1][i]
                  /\ k[Len(path_root[1]) + 1] = 47}

\* C17: what items(path_root) has returned, on an enabled or a disabled
\* engine, is one (key, value) pair for each entry whose ttl has not elapsed
\* and whose key is path_root, or begins with path_root and a '/', or any
\* key when no path_root is given; each pair holds the stored value; and the
\* pairs are in ascending order of their keys.  (items changes nothing, so
\* the store and the clock are those of the call.)
C17_Items ==
    op.name = "items" =>
        /\ {ret[i][1] : i \in 1..Len(ret)} = Listed(op.key)
        /\ Len(ret) = Cardinality(Listed(op.key))
        /\ \A i \in 1..Len(ret) : ret[i][2] = _dict[ret[i][1]].value
        /\ \A i \in 1..(Len(ret) - 1) : str_lt(ret[i][1], ret[i + 1][1])

\* items('foo') over the live entries foo, unfoo and foo/qux, on a disabled
\* engine, has returned foo and foo/qux in that order
C17_Witness ==
    /\ ~_enabled
    /\ op.name = "items" /\ op.key = <<K_foo>>
    /\ DOMAIN _dict = ItemKeys
    /\ \A k \in ItemKeys : _dict[k].ttl = NoTtl
    /\ Len(ret) = 2 /\ ret[1][1] = K_foo /\ ret[2][1] = K_foo_qux

\* C18: the module-level get(key), called without a default, returns
\* CACHE_MISS when the engine is enabled and the key is absent or expired,
\* and returns CACHE_DISABLED only when the engine is disabled.
C18_ModuleGetMiss ==
    [][\A k \in QueryKeys :
           (op'.name = "module_get" /\ op'.key = k) =>
               /\ (_enabled /\ has(k) = False) => ret' = CACHE_MISS
               /\ ret' = CACHE_DISABLED => ~_enabled]_vars

\* C19: a fresh options object has enabled = true and debug = false;
\* assigning a non-boolean to the enabled flag or to the debug flag fails
\* with a type error and leaves both flags as they were; assigning a boolean
\* succeeds and is the value read back.
C19_OptionsTyped ==
    /\ enabled = True /\ debug = False
    /\ [][/\ (op'.name = "options.enabled" /\ op'.arg \notin {True, False}) =>
                 ret' = TYPE_ERROR /\ enabled' = enabled /\ debug' = debug
          /\ (op'.name = "options.debug" /\ op'.arg \notin {True, False}) =>
                 ret' = TYPE_ERROR /\ enabled' = enabled /\ debug' = debug
          /\ (op'.name = "options.enabled" /\ op'.arg \in {True, False}) =>
                 ret' = None /\ enabled' = op'.arg /\ debug' = debug
          /\ (op'.name = "options.debug" /\ op'.arg \in {True, False}) =>
                 ret' = None /\ debug' = op'.arg /\ enabled' = enabled]_vars

\* options.enabled = 'foo' on options whose enabled flag is false has raised
\* and the flag is still false, after debug was set to true
C19_Witness ==
    /\ op.name = "options.enabled" /\ op.arg = "'foo'"
    /\ ret = TYPE_ERROR
    /\ enabled = False /\ debug = True

\* C20: on an enabled engine, upsert(k, v, ttl) on a key that already has an
\* entry, live or expired, returns True and replaces the whole entry: the
\* value is v, the ttl is the new ttl (none when omitted), the timestamp is
\* the time of the call, the other entries are as they were, and the key is
\* live afterwards.
C20_UpsertReplaces ==
    [][\A k \in Keys :
           (_enabled /\ op'.name = "upsert" /\ op'.key = k /\ k \in DOMAIN _dict) =>
               /\ ret' = True
               /\ DOMAIN _dict' = DOMAIN _dict
               /\ _dict'[k] = [value |-> op'.arg, ttl |-> op'.ttl, timestamp |-> now]
               /\ \A j \in DOMAIN _dict \ {k} : _dict'[j] = _dict[j]
               /\ has(k)' = True]_vars

\* an upsert without a ttl, at time 2, over an expired entry has returned
\* True, and the key now holds the new value, no ttl and timestamp 2
C20_Witness ==
    /\ _enabled
    /\ op.name = "upsert" /\ op.found = "expired" /\ op.ttl = NoTtl
    /\ ret = True
    /\ now = 2
    /\ _dict[op.key] = [value |-> op.arg, ttl |-> NoTtl, timestamp |-> 2]
    /\ has(op.key) = True

\* C21: with the calls of several threads interleaved, disable(clear_cache=
\* True) is atomic: in the state a completed disable(True) leaves, the engine
\* is disabled and the store is empty, and while a thread is between the
\* clear of its disable(True) and the assignment of the flag, no step is
\* taken by another thread.
C21_DisableAtomic ==
    /\ []((op.name = "disable" /\ op.arg = True /\ ret = None /\ ~_enabled)
              => _dict = << >>)
    /\ [][\A t \in Threads :
              (pc[t].at = "set_enabled" /\ pc[t].arg = True) => pc'[t] # pc[t]]_vars

\* C22: a call of a decorated function returns what the body returned (or
\* fails as the body failed) in that call, or the value stored under the
\* call's key; it does not return CACHE_MISS or CACHE_DISABLED, whatever
\* the clock does between the has and the get of the call.
C22_NoSentinel ==
    [][op'.name = "this" =>
          /\ \/ op'.arg # NOT_CALLED /\ ret' = op'.arg
             \/ op'.key \in DOMAIN _dict /\ ret' = _dict[op'.key].value
          /\ ret' \notin {CACHE_MISS, CACHE_DISABLED}]_vars

====
